---- MODULE Spec2Model ----
(***************************************************************************)
(* Model of the client-side slot machine of src/script.js: the credits     *)
(* counter, the 3x3 grid, the grid element of the page, the spin button's  *)
(* disabled flag, the flash container and the animation timers of the      *)
(* spins in flight, with one action per event handler or timer callback.   *)
(***************************************************************************)
EXTENDS Integers, Sequences, FiniteSets, TLC

(***************************************************************************)
(* Program constants.                                                      *)
(***************************************************************************)
ROWS == 3
COLS == 3
SPIN_COST == 10
SINGLE_LINE_REWARD == 50
MULTI_LINE_REWARD == 100
StartCredits == 100
durationMs == 600
tickMs == 80
steps == 20

symbols == << "cherry", "lemon", "grape", "bell", "star", "gem", "seven" >>

(***************************************************************************)
(* Bounds of the model.                                                    *)
(***************************************************************************)
\* symbols a cell of an evaluated grid ranges over (SpecEval)
NumSymbols == 2
\* outcomes of randomGrid / of a flicker that the model draws from
NumOutcomes == 3
\* spins whose animation runs at the same time
MaxInFlight == 2
\* wins are drawn only while the credits stay at or below this
MaxCredits == 100
\* credit animations whose interval timer is set at the same time (SpecCredits)
MaxAnims == 1

RowIdx == 0 .. (ROWS - 1)
ColIdx == 0 .. (COLS - 1)

Range(s) == { s[i] : i \in 1 .. Len(s) }

\* a grid is g[r][c], r and c counted from 0 as in the source
MkGrid(rows) == [r \in RowIdx |-> [c \in ColIdx |-> rows[r + 1][c + 1]]]

makeEmptyGrid == [r \in RowIdx |-> [c \in ColIdx |-> ""]]

(***************************************************************************)
(* Outcomes of Math.random that the model enumerates: the grids that       *)
(* randomGrid (and a flicker of the nine cells) can produce are drawn from *)
(* the first NumOutcomes of these.                                         *)
(***************************************************************************)
SampleGrids ==
  << MkGrid(<< <<"cherry", "lemon", "grape">>,
               <<"bell", "star", "gem">>,
               <<"seven", "cherry", "lemon">> >>),
     MkGrid(<< <<"cherry", "cherry", "cherry">>,
               <<"lemon", "grape", "bell">>,
               <<"star", "gem", "seven">> >>),
     MkGrid(<< <<"cherry", "cherry", "cherry">>,
               <<"cherry", "bell", "star">>,
               <<"cherry", "gem", "seven">> >>),
     MkGrid(<< <<"seven", "seven", "seven">>,
               <<"seven", "seven", "seven">>,
               <<"seven", "seven", "seven">> >>),
     MkGrid(<< <<"gem", "lemon", "bell">>,
               <<"star", "gem", "lemon">>,
               <<"bell", "star", "gem">> >>),
     MkGrid(<< <<"lemon", "star", "grape">>,
               <<"bell", "star", "gem">>,
               <<"grape", "star", "lemon">> >>),
     MkGrid(<< <<"grape", "bell", "star">>,
               <<"lemon", "star", "bell">>,
               <<"star", "star", "star">> >>) >>

\* a symbol index one past the end of symbols: such a cell comes out blank
randomGrid_IndexPastEnd ==
  { SampleGrids[i] : i \in 1 .. NumOutcomes }
    \cup { [SampleGrids[1] EXCEPT ![1] = [c \in ColIdx |-> IF c = 1 THEN "" ELSE @[c]]] }

randomGrid == { SampleGrids[i] : i \in 1 .. NumOutcomes }

(***************************************************************************)
(* detectWinningLines: rows top to bottom, columns left to right, the two  *)
(* diagonals; a line is pushed when its first cell is truthy and the three *)
(* cells are equal.                                                        *)
(***************************************************************************)
\* RowWins without the truthiness test of the first cell
RowWins_NoTruthy(g, r) == g[r][0] = g[r][1] /\ g[r][1] = g[r][2]

RowWins(g, r) == g[r][0] # "" /\ g[r][0] = g[r][1] /\ g[r][1] = g[r][2]

\* ColWins with the last comparison on the wrong column
ColWins_WrongCell(g, c) == g[0][c] # "" /\ g[0][c] = g[1][c] /\ g[1][c] = g[2][0]

ColWins(g, c) == g[0][c] # "" /\ g[0][c] = g[1][c] /\ g[1][c] = g[2][c]

DiagWins(g) == g[0][0] # "" /\ g[0][0] = g[1][1] /\ g[1][1] = g[2][2]

AntiDiagWins(g) == g[0][2] # "" /\ g[0][2] = g[1][1] /\ g[1][1] = g[2][0]

RECURSIVE pushRows(_, _, _)
pushRows(g, r, lines) ==
  IF r >= ROWS THEN lines
  ELSE pushRows(g, r + 1,
                IF RowWins(g, r)
                THEN Append(lines, << <<r, 0>>, <<r, 1>>, <<r, 2>> >>)
                ELSE lines)

RECURSIVE pushCols(_, _, _)
pushCols(g, c, lines) ==
  IF c >= COLS THEN lines
  ELSE pushCols(g, c + 1,
                IF ColWins(g, c)
                THEN Append(lines, << <<0, c>>, <<1, c>>, <<2, c>> >>)
                ELSE lines)

pushDiagonals(g, lines) ==
  LET d1 == IF DiagWins(g)
            THEN Append(lines, << <<0, 0>>, <<1, 1>>, <<2, 2>> >>)
            ELSE lines
  IN IF AntiDiagWins(g)
     THEN Append(d1, << <<0, 2>>, <<1, 1>>, <<2, 0>> >>)
     ELSE d1

\* the columns loop placed before the rows loop
detectWinningLines_ColsFirst(g) ==
  pushDiagonals(g, pushRows(g, 0, pushCols(g, 0, << >>)))

detectWinningLines(g) == pushDiagonals(g, pushCols(g, 0, pushRows(g, 0, << >>)))

(***************************************************************************)
(* State.                                                                  *)
(*   credits, grid   the two script variables                              *)
(*   winningLines    the value the latest detectWinningLines call returned *)
(*   shown           the textContent of the nine cells of gridEl           *)
(*   owner           the spin whose startSpinAnimation captured the cells  *)
(*                   now in gridEl (0: no animation holds them)            *)
(*   highlighted     indices r*COLS+c of the cells with class winning-cell *)
(*   disabled        spinBtn.disabled                                      *)
(*   flash           the alerts in flashContainer, oldest first            *)
(*   inFlight        the spins whose interval timer is still set           *)
(*   fired           per spin, how often its timer callback has run        *)
(*   soloSpin, soloBase  history: the spin accepted last, with no accepted *)
(*                   spin and no reset since its click (0: none), and the  *)
(*                   credits its click found                               *)
(*   display         the number in creditsDisplay                          *)
(*   anims           the credit animations whose interval timer is set,    *)
(*                   oldest first: the number animateCredits found, the    *)
(*                   number it goes to, the steps done                     *)
(* No handler reads display or anims but animateCredits and its callback,  *)
(* which write nothing else: Spec follows the other variables and leaves   *)
(* these two as they start, SpecCredits follows the handlers with them.    *)
(***************************************************************************)
VARIABLES credits, grid, winningLines, shown, owner, highlighted, disabled,
          flash, inFlight, fired, soloSpin, soloBase, display, anims

vars == << credits, grid, winningLines, shown, owner, highlighted, disabled,
           flash, inFlight, fired, soloSpin, soloBase >>

cvars == << display, anims >>

Slots == 1 .. MaxInFlight

\* renderGrid writes grid[r][c] || randomSymbol() into each new cell
renderGrid(g, rnd) ==
  [r \in RowIdx |-> [c \in ColIdx |-> IF g[r][c] # "" THEN g[r][c] ELSE rnd[r][c]]]

\* indexFromRC with row and column taken for each other
highlightWinningCells_Transposed(lines) ==
  { lines[i][j][2] * COLS + lines[i][j][1] : i \in 1 .. Len(lines), j \in 1 .. 3 }

\* highlightWinningCells: the cells of all lines, index r * COLS + c
highlightWinningCells(lines) ==
  { lines[i][j][1] * COLS + lines[i][j][2] : i \in 1 .. Len(lines), j \in 1 .. 3 }

\* the comparison off by one
updateSpinDisabledState_OffByOne(c) == c <= SPIN_COST

\* updateSpinDisabledState
updateSpinDisabledState(c) == c < SPIN_COST

\* the reward of the click handler for a list of winning lines
reward(lines) ==
  IF Len(lines) > 0
  THEN (IF Len(lines) = 1 THEN SINGLE_LINE_REWARD ELSE MULTI_LINE_REWARD)
  ELSE 0

\* the two success messages taken for each other
outcomeFlash_Swapped(lines) ==
  IF Len(lines) > 0
  THEN (IF Len(lines) = 1 THEN "multi" ELSE "single")
  ELSE "info"

\* the outcome message the click handler adds for a list of winning lines
outcomeFlash(lines) ==
  IF Len(lines) > 0
  THEN (IF Len(lines) = 1 THEN "single" ELSE "multi")
  ELSE "info"

Init ==
  /\ credits = StartCredits
  /\ grid = makeEmptyGrid
  /\ winningLines = << >>
  /\ shown \in { renderGrid(makeEmptyGrid, rnd) : rnd \in randomGrid }
  /\ owner = 0
  /\ highlighted = {}
  /\ disabled = updateSpinDisabledState(StartCredits)
  /\ flash = << >>
  /\ inFlight = {}
  /\ fired = [s \in Slots |-> 0]
  /\ soloSpin = 0
  /\ soloBase = 0
  /\ display = StartCredits
  /\ anims = << >>

(***************************************************************************)
(* The click handler of spinBtn, up to its await.                          *)
(***************************************************************************)
\* if (spinBtn.disabled) return;
SpinIgnored ==
  /\ disabled
  /\ UNCHANGED vars

\* credits < SPIN_COST: the notice, and no charge
SpinRejected ==
  /\ ~disabled
  /\ credits < SPIN_COST
  /\ flash' = << "danger" >>
  /\ disabled' = updateSpinDisabledState(credits)
  /\ UNCHANGED << credits, grid, winningLines, shown, owner, highlighted,
                  inFlight, fired, soloSpin, soloBase >>

\* the grid randomized at the click, before the animation
chargeAndAnimate_GridFirst(enough) ==
  /\ ~disabled
  /\ enough
  /\ \E s \in Slots :
       /\ s \notin inFlight
       /\ \A q \in Slots : q < s => q \in inFlight
       /\ credits' = credits - SPIN_COST
       /\ flash' = << >>
       /\ \E g \in randomGrid : grid' = g
       /\ \E animGrid \in randomGrid : shown' = renderGrid(animGrid, animGrid)
       /\ owner' = s
       /\ highlighted' = {}
       /\ inFlight' = inFlight \cup {s}
       /\ fired' = [fired EXCEPT ![s] = 0]
       /\ soloSpin' = s
       /\ soloBase' = credits
  /\ UNCHANGED << winningLines, disabled >>

\* the charge, then startSpinAnimation up to the promise it returns; enough
\* is the outcome of the handler's test of the credits. The code sets no
\* limit on the spins in flight: the model stops at MaxInFlight of them.
chargeAndAnimate(enough) ==
  /\ ~disabled
  /\ enough
  /\ \E s \in Slots :
       /\ s \notin inFlight
       /\ \A q \in Slots : q < s => q \in inFlight
       /\ credits' = credits - SPIN_COST
       /\ flash' = << >>
       /\ \E animGrid \in randomGrid : shown' = renderGrid(animGrid, animGrid)
       /\ owner' = s
       /\ highlighted' = {}
       /\ inFlight' = inFlight \cup {s}
       /\ fired' = [fired EXCEPT ![s] = 0]
       /\ soloSpin' = s
       /\ soloBase' = credits
  /\ UNCHANGED << grid, winningLines, disabled >>

\* the handler without its test of the credits
SpinAccepted_NoCreditCheck == chargeAndAnimate(TRUE)

\* the handler testing the credits against zero instead of the cost
SpinAccepted_CheckBelowZero == chargeAndAnimate(~(credits < 0))

SpinAccepted == chargeAndAnimate(~(credits < SPIN_COST))

SpinClick == SpinIgnored \/ SpinRejected \/ SpinAccepted

\* keydown: Space clicks the button unless it is disabled
KeySpace ==
  IF disabled THEN UNCHANGED vars ELSE SpinClick

(***************************************************************************)
(* The interval callback of startSpinAnimation. The k-th run comes no      *)
(* earlier than k * tickMs after start and may come later, so a run may    *)
(* find the duration over at any k, and must from k * tickMs >= durationMs *)
(* on.                                                                     *)
(***************************************************************************)
\* a flicker that writes to the cells now in gridEl, whoever captured them
TimerFlicker_LiveCells(s) ==
  /\ s \in inFlight
  /\ (fired[s] + 1) * tickMs < durationMs
  /\ fired' = [fired EXCEPT ![s] = fired[s] + 1]
  /\ \E rnd \in randomGrid : shown' = rnd
  /\ UNCHANGED << credits, grid, winningLines, owner, highlighted, disabled,
                  flash, inFlight, soloSpin, soloBase >>

\* a callback that takes start anew at every run: the duration is never over
TimerFlicker_RestartsClock(s) ==
  /\ s \in inFlight
  /\ IF owner = s
     THEN \E rnd \in randomGrid : shown' = rnd
     ELSE shown' = shown
  /\ UNCHANGED << credits, grid, winningLines, owner, highlighted, disabled,
                  flash, inFlight, fired, soloSpin, soloBase >>

TimerFlicker(s) ==
  /\ s \in inFlight
  /\ (fired[s] + 1) * tickMs < durationMs
  /\ fired' = [fired EXCEPT ![s] = fired[s] + 1]
  /\ IF owner = s
     THEN \E rnd \in randomGrid : shown' = rnd
     ELSE shown' = shown
  /\ UNCHANGED << credits, grid, winningLines, owner, highlighted, disabled,
                  flash, inFlight, soloSpin, soloBase >>

\* clearInterval and resolve, then the click handler after its await (the
\* continuation runs before any other event). A winning grid is drawn only
\* while the reward keeps the credits within MaxCredits.
TimerComplete(s) ==
  /\ s \in inFlight
  /\ inFlight' = inFlight \ {s}
  /\ fired' = [fired EXCEPT ![s] = 0]
  /\ \E g \in randomGrid :
       LET lines == detectWinningLines(g) IN
       /\ credits + reward(lines) <= MaxCredits
       /\ grid' = g
       /\ shown' = renderGrid(g, g)
       /\ owner' = 0
       /\ winningLines' = lines
       /\ highlighted' = highlightWinningCells(lines)
       /\ credits' = credits + reward(lines)
       /\ flash' = Append(flash, outcomeFlash(lines))
       /\ disabled' = updateSpinDisabledState(credits + reward(lines))
  /\ soloSpin' = (IF soloSpin = s THEN 0 ELSE soloSpin)
  /\ soloBase' = (IF soloSpin = s THEN 0 ELSE soloBase)

(***************************************************************************)
(* The click handler of resetBtn.                                          *)
(***************************************************************************)
\* a reset that leaves the button's disabled flag as it was
ResetClick_KeepsDisabled ==
  /\ credits' = StartCredits
  /\ grid' = makeEmptyGrid
  /\ \E rnd \in randomGrid : shown' = renderGrid(makeEmptyGrid, rnd)
  /\ owner' = 0
  /\ highlighted' = {}
  /\ flash' = << "secondary" >>
  /\ soloSpin' = 0
  /\ soloBase' = 0
  /\ UNCHANGED << winningLines, inFlight, fired, disabled >>

ResetClick ==
  /\ credits' = StartCredits
  /\ grid' = makeEmptyGrid
  /\ \E rnd \in randomGrid : shown' = renderGrid(makeEmptyGrid, rnd)
  /\ owner' = 0
  /\ highlighted' = {}
  /\ flash' = << "secondary" >>
  /\ disabled' = updateSpinDisabledState(StartCredits)
  /\ soloSpin' = 0
  /\ soloBase' = 0
  /\ UNCHANGED << winningLines, inFlight, fired >>

\* the click handler of spinBtn is SpinClick, listed here by its three paths
Next ==
  \/ SpinIgnored /\ UNCHANGED cvars
  \/ SpinRejected /\ UNCHANGED cvars
  \/ SpinAccepted /\ UNCHANGED cvars
  \/ KeySpace /\ UNCHANGED cvars
  \/ \E s \in Slots : TimerFlicker(s) /\ UNCHANGED cvars
  \/ \E s \in Slots : TimerComplete(s) /\ UNCHANGED cvars
  \/ ResetClick /\ UNCHANGED cvars

Spec == Init /\ [][Next]_vars

(***************************************************************************)
(* detectWinningLines as a function of its argument: the grid is any 3x3   *)
(* grid over the first NumSymbols symbols and the empty string.            *)
(***************************************************************************)
EvalCells == { symbols[i] : i \in 1 .. NumSymbols } \cup { "" }

EvalGrids == [RowIdx -> [ColIdx -> EvalCells]]

InitEval ==
  /\ Init
  /\ shown = renderGrid(makeEmptyGrid, SampleGrids[1])

Evaluate ==
  /\ grid = makeEmptyGrid
  /\ \E g \in EvalGrids :
       /\ grid' = g
       /\ winningLines' = detectWinningLines(g)
  /\ UNCHANGED << credits, shown, owner, highlighted, disabled, flash,
                  inFlight, fired, soloSpin, soloBase >>
  /\ UNCHANGED cvars

NextEval == Evaluate

SpecEval == InitEval /\ [][NextEval]_vars

(***************************************************************************)
(* The eight lines, and what it means for one to be matched.               *)
(***************************************************************************)
FixedLines ==
  { << <<0, 0>>, <<0, 1>>, <<0, 2>> >>,
    << <<1, 0>>, <<1, 1>>, <<1, 2>> >>,
    << <<2, 0>>, <<2, 1>>, <<2, 2>> >>,
    << <<0, 0>>, <<1, 0>>, <<2, 0>> >>,
    << <<0, 1>>, <<1, 1>>, <<2, 1>> >>,
    << <<0, 2>>, <<1, 2>>, <<2, 2>> >>,
    << <<0, 0>>, <<1, 1>>, <<2, 2>> >>,
    << <<0, 2>>, <<1, 1>>, <<2, 0>> >> }

CellAt(g, p) == g[p[1]][p[2]]

Matched(g, L) ==
  /\ \A i \in 1 .. 3 : CellAt(g, L[i]) # ""
  /\ \A i, j \in 1 .. 3 : CellAt(g, L[i]) = CellAt(g, L[j])

MatchedLines(g) == { L \in FixedLines : Matched(g, L) }

\* C1: every one of the eight lines whose three cells hold the same
\* non-empty symbol is in the list detectWinningLines returned for the grid.
C1_Complete ==
  \A L \in FixedLines : Matched(grid, L) => L \in Range(winningLines)

\* a grid with a matched row, a matched column and a matched diagonal, all
\* three returned
C1_Witness ==
  /\ Matched(grid, << <<1, 0>>, <<1, 1>>, <<1, 2>> >>)
  /\ Matched(grid, << <<0, 2>>, <<1, 2>>, <<2, 2>> >>)
  /\ Matched(grid, << <<0, 2>>, <<1, 1>>, <<2, 0>> >>)
  /\ ~Matched(grid, << <<0, 0>>, <<0, 1>>, <<0, 2>> >>)
  /\ Len(winningLines) = 3

\* C2: every returned line is one of the eight lines, is returned once, and
\* its three cells are equal and non-empty (so no line with an empty cell is
\* returned); a grid with no matched line yields the empty list.
C2_Sound ==
  /\ \A i \in 1 .. Len(winningLines) :
       /\ winningLines[i] \in FixedLines
       /\ Matched(grid, winningLines[i])
       /\ \A k \in 1 .. 3 : CellAt(grid, winningLines[i][k]) # ""
  /\ \A i, j \in 1 .. Len(winningLines) :
       i # j => winningLines[i] # winningLines[j]
  /\ (MatchedLines(grid) = {}) => (winningLines = << >>)

\* a grid with an all-empty row and a column that is equal but for its empty
\* cell, neither returned, next to one row that is
C2_Witness ==
  /\ \A c \in ColIdx : grid[0][c] = ""
  /\ grid[1][0] = grid[2][0] /\ grid[1][0] # ""
  /\ Matched(grid, << <<1, 0>>, <<1, 1>>, <<1, 2>> >>)
  /\ winningLines = << << <<1, 0>>, <<1, 1>>, <<1, 2>> >> >>

(***************************************************************************)
(* Claims about the handlers.                                              *)
(***************************************************************************)
Tier(g) ==
  LET n == Cardinality(MatchedLines(g))
  IN IF n = 0 THEN 0 ELSE IF n = 1 THEN 50 ELSE 100

Completes(s) == s \in inFlight /\ s \notin inFlight'

\* C3: a spin that runs from its click to its completion with no other spin
\* accepted and no reset in between ends with credits = credits at its click
\* - 10 + R, R = 0, 50 or 100 for zero, one, two or more winning lines of
\* its final grid.
C3_TieredPayout ==
  [][\A s \in Slots :
       (Completes(s) /\ soloSpin = s) => credits' = soloBase - 10 + Tier(grid')]_vars

\* C4: a spin click in a state with credits < SPIN_COST leaves credits and
\* grid as they were and starts no animation, randomization or payout.
C4_RejectedUnchanged ==
  [][(SpinClick /\ credits < SPIN_COST) =>
       /\ credits' = credits
       /\ grid' = grid
       /\ winningLines' = winningLines
       /\ inFlight' = inFlight
       /\ fired' = fired
       /\ shown' = shown
       /\ owner' = owner]_vars

\* a click was rejected while a spin that took the last credits is in flight
C4_Witness ==
  /\ flash = << "danger" >>
  /\ credits < SPIN_COST
  /\ inFlight # {}
  /\ grid # makeEmptyGrid

\* C5: whenever the spin click handler runs in a state with credits <
\* SPIN_COST, the 'danger' notice is in the flash container when it returns.
C5_RejectionNotice ==
  (credits < SPIN_COST) => ~ENABLED (SpinClick /\ "danger" \notin Range(flash'))

\* C6: reset is never blocked, and right after it credits = 100, all nine
\* cells of the grid are empty and the spin button is enabled.
C6_ResetPost ==
  /\ [](ENABLED ResetClick)
  /\ [][ResetClick =>
          /\ credits' = 100
          /\ \A r \in 0 .. 2 : \A c \in 0 .. 2 : grid'[r][c] = ""
          /\ ~disabled']_vars

\* right after a reset pressed while a spin is in flight
C6_Witness ==
  /\ flash = << "secondary" >>
  /\ inFlight # {}
  /\ credits = 100
  /\ grid = makeEmptyGrid
  /\ ~disabled

\* C7: at most one spin is in progress at any time.
C7_NoReentrantSpin == Cardinality(inFlight) <= 1

FlickerStep == \E s \in Slots : TimerFlicker(s)

\* C8 as claimed: when detectWinningLines runs the shown symbols equal the
\* evaluated grid, and afterwards no animation tick of any spin changes the
\* shown symbols while that grid remains the current grid.
C8_DisplayedMatches ==
  [][/\ (\E s \in Slots : Completes(s)) => shown' = grid'
     /\ (FlickerStep /\ grid # makeEmptyGrid /\ grid' = grid) => shown' = shown]_vars

\* C8 as amended: from the moment detectWinningLines runs until the next
\* spin click is accepted or reset is clicked, the shown symbols equal the
\* evaluated grid; the ticks of spins still in flight do not change them.
C8_Amended ==
  (owner = 0 /\ grid # makeEmptyGrid) => shown = grid

\* a spin has completed and another one, which has ticked, is still in flight
C8_Witness ==
  /\ owner = 0
  /\ grid # makeEmptyGrid
  /\ shown = grid
  /\ \E s \in inFlight : fired[s] > 0

\* C9: credits are a non-negative integer in every reachable state.
C9_NonNegative == credits \in Nat

\* the last ten credits were charged and the spin is in flight
C9_Witness ==
  /\ credits = 0
  /\ inFlight # {}
  /\ ~disabled

\* C10: the grid is 3 rows of 3 cells, all empty or all symbols of the
\* alphabet.
C10_GridShape ==
  /\ DOMAIN grid = 0 .. 2
  /\ \A r \in 0 .. 2 : DOMAIN grid[r] = 0 .. 2
  /\ \/ \A r \in 0 .. 2 : \A c \in 0 .. 2 : grid[r][c] = ""
     \/ \A r \in 0 .. 2 : \A c \in 0 .. 2 : grid[r][c] \in Range(symbols)

\* a reset emptied the grid and the spin in flight at the reset has then
\* completed and populated it
C10_Witness ==
  /\ grid # makeEmptyGrid
  /\ flash = << "secondary", "info" >>

(***************************************************************************)
(* The order of the returned list.                                         *)
(***************************************************************************)
FixedOrder ==
  << << <<0, 0>>, <<0, 1>>, <<0, 2>> >>,
     << <<1, 0>>, <<1, 1>>, <<1, 2>> >>,
     << <<2, 0>>, <<2, 1>>, <<2, 2>> >>,
     << <<0, 0>>, <<1, 0>>, <<2, 0>> >>,
     << <<0, 1>>, <<1, 1>>, <<2, 1>> >>,
     << <<0, 2>>, <<1, 2>>, <<2, 2>> >>,
     << <<0, 0>>, <<1, 1>>, <<2, 2>> >>,
     << <<0, 2>>, <<1, 1>>, <<2, 0>> >> >>

PosInOrder(L) == CHOOSE k \in 1 .. Len(FixedOrder) : FixedOrder[k] = L

\* C11: the returned list is a subsequence of row 0, row 1, row 2, column 0,
\* column 1, column 2, main diagonal, anti-diagonal, each line with its three
\* coordinates in the fixed order.
C11_EmissionOrder ==
  /\ \A i \in 1 .. Len(winningLines) : winningLines[i] \in Range(FixedOrder)
  /\ \A i, j \in 1 .. Len(winningLines) :
       i < j => PosInOrder(winningLines[i]) < PosInOrder(winningLines[j])

\* a grid of one symbol: all eight lines returned, in the fixed order
C11_Witness ==
  /\ grid # makeEmptyGrid
  /\ winningLines = FixedOrder

(***************************************************************************)
(* The outcome message of a completed spin.                                *)
(***************************************************************************)
KindFor(g) ==
  LET n == Cardinality(MatchedLines(g))
  IN IF n = 0 THEN "info" ELSE IF n = 1 THEN "single" ELSE "multi"

\* C12: the completion of a spin adds exactly one outcome message to the
\* flash container, of the kind that matches the number of winning lines of
\* its final grid: 'info' for none, the single-line 'success' message for
\* one, the multi-line 'success' message for two or more.
C12_OutcomeMessage ==
  [][\A s \in Slots : Completes(s) => flash' = Append(flash, KindFor(grid'))]_vars

\* a spin has completed on a grid with two winning lines
C12_Witness ==
  /\ flash = << "multi" >>
  /\ Cardinality(MatchedLines(grid)) = 2
  /\ inFlight = {}

(***************************************************************************)
(* Reset and the spins in flight. The alert of the reset is the first in   *)
(* the flash container exactly until the next click that is not ignored    *)
(* clears the container.                                                   *)
(***************************************************************************)
\* C13: after a reset, credits stay 100 and the grid stays empty until the
\* next spin click is accepted; a spin in flight at the reset does not
\* overwrite the grid or add a reward afterwards.
C13_ResetUndisturbed ==
  (Len(flash) > 0 /\ flash[1] = "secondary") =>
    (credits = 100 /\ grid = makeEmptyGrid)

(***************************************************************************)
(* The steps of an accepted spin.                                          *)
(***************************************************************************)
Accepts(s) == s \notin inFlight /\ s \in inFlight'

Populated(g) == \A r \in 0 .. 2 : \A c \in 0 .. 2 : g[r][c] \in Range(symbols)

CompletionOrder ==
  \A s \in Slots :
    Completes(s) =>
      /\ Populated(grid')
      /\ shown' = grid'
      /\ Range(winningLines') = MatchedLines(grid')
      /\ credits' = credits + Tier(grid')

\* C14 as claimed: the cost is charged at the click, before the animation;
\* the grid keeps its previous value during the whole animation; it is
\* replaced by a random grid only when the animation has finished, and then
\* rendered, evaluated and paid for, in this order.
C14_StepOrder ==
  [][/\ \A s \in Slots : Accepts(s) => (credits' = credits - 10 /\ grid' = grid)
     /\ \A s \in Slots : (s \in inFlight /\ s \in inFlight') => grid' = grid
     /\ CompletionOrder]_vars

\* C14 as amended: the cost is charged at the click, before the animation;
\* no tick of the animation changes grid or credits; grid gets a random grid
\* only in the step that ends an animation, which renders it, evaluates it
\* and adds the reward. Meanwhile a reset or the completion of another spin
\* in flight may change the grid.
C14_Amended ==
  [][/\ \A s \in Slots : Accepts(s) => (credits' = credits - 10 /\ grid' = grid)
     /\ \A s \in Slots :
          (s \in inFlight /\ s \in inFlight' /\ fired'[s] # fired[s]) =>
            (grid' = grid /\ credits' = credits)
     /\ (grid' # grid /\ grid' # makeEmptyGrid) => \E s \in Slots : Completes(s)
     /\ CompletionOrder]_vars

\* a spin was charged and has completed on a grid with one winning line,
\* rendered and paid for
C14_Witness ==
  /\ flash = << "single" >>
  /\ credits = 100
  /\ Cardinality(MatchedLines(grid)) = 1
  /\ shown = grid
  /\ inFlight = {}

(***************************************************************************)
(* Liveness. The interval timer of a spin in flight keeps firing: each of  *)
(* its callbacks is a flicker or the completion.                           *)
(***************************************************************************)
TimerFires(s) == TimerFlicker(s) \/ TimerComplete(s)

SpecLive == Spec /\ \A s \in Slots : WF_vars(TimerFires(s))

\* C15: every spin whose cost was charged eventually ends its animation:
\* its interval timer is cleared and its completion (new random grid, win
\* detection, refresh of the disabled flag) has run.
C15_SpinCompletes ==
  \A s \in Slots : (s \in inFlight) ~> (s \notin inFlight)

\* a spin in flight whose next timer callback must find the duration over
C15_Witness ==
  \E s \in inFlight : (fired[s] + 1) * tickMs >= durationMs

(***************************************************************************)
(* The highlighted cells of a completed spin.                              *)
(***************************************************************************)
CellsOf(Ls) == { L[k][1] * 3 + L[k][2] : L \in Ls, k \in 1 .. 3 }

\* C16: when a spin completes, the cells with the winning highlight are the
\* cells (r, c), at index r * 3 + c, of the winning lines of its grid, a
\* shared cell once; with no winning line no cell is highlighted.
C16_Highlighting ==
  [][\A s \in Slots :
       Completes(s) =>
         /\ highlighted' = CellsOf(MatchedLines(grid'))
         /\ (MatchedLines(grid') = {}) => (highlighted' = {})]_vars

\* the top row and the left column won: five cells, their shared corner once
C16_Witness ==
  /\ highlighted = {0, 1, 2, 3, 6}
  /\ Cardinality(MatchedLines(grid)) = 2
  /\ owner = 0

(***************************************************************************)
(* The disabled flag of the spin button.                                   *)
(***************************************************************************)
\* C18: when no spin is in flight, the spin button is disabled if and only
\* if credits < SPIN_COST, so that a spin click is accepted exactly when
\* credits >= 10.
C18_DisabledConsistent ==
  (inFlight = {}) =>
    /\ disabled <=> (credits < SPIN_COST)
    /\ (ENABLED SpinAccepted) <=> (credits >= 10)

\* the last spin has completed without a win and left no credits
C18_Witness ==
  /\ inFlight = {}
  /\ credits = 0
  /\ disabled
  /\ flash = << "info" >>

(***************************************************************************)
(* The credits display. updateCredits(value, true) writes the number at    *)
(* once; animateCredits(newValue) sets an interval timer that writes       *)
(* Math.round(currentValue + increment * currentStep) at each of its steps *)
(* and newValue at the last, where currentValue is the number the display  *)
(* showed when it was called. The numbers are computed exactly here (the   *)
(* script computes increment in floating point).                           *)
(***************************************************************************)
allvars == << vars, cvars >>

\* spins in flight at the same time under SpecCredits
MaxShownSpins == 1

\* Math.round of n / steps: the nearest integer, a half rounded up
roundSteps(n) == (2 * n + steps) \div (2 * steps)

\* animateCredits(newValue), up to its setInterval. The code sets no limit
\* on the timers: the model stops at MaxAnims of them.
animateCredits(newValue) ==
  /\ Len(anims) < MaxAnims
  /\ anims' = Append(anims, [from |-> display, to |-> newValue, step |-> 0])
  /\ display' = display

\* the interval callback of animateCredits
CreditTick(i) ==
  /\ i \in 1 .. Len(anims)
  /\ LET a == anims[i]
         currentStep == a.step + 1
     IN IF currentStep >= steps
        THEN /\ display' = a.to
             /\ anims' = [k \in 1 .. (Len(anims) - 1) |->
                            IF k < i THEN anims[k] ELSE anims[k + 1]]
        ELSE /\ display' = roundSteps(a.from * steps + (a.to - a.from) * currentStep)
             /\ anims' = [anims EXCEPT ![i].step = currentStep]
  /\ UNCHANGED vars

\* the click handler of spinBtn up to its await, with updateCredits(credits)
SpinClickShown ==
  \/ (SpinIgnored \/ SpinRejected) /\ UNCHANGED cvars
  \/ /\ Cardinality(inFlight) < MaxShownSpins
     /\ SpinAccepted
     /\ animateCredits(credits')

\* Space on the page clicks the button unless it is disabled
KeySpaceShown ==
  IF disabled THEN UNCHANGED allvars ELSE SpinClickShown

\* the end of a spin, with animateCredits(credits) after a payout
TimerCompleteShown(s) ==
  /\ TimerComplete(s)
  /\ IF Len(winningLines') > 0
     THEN animateCredits(credits')
     ELSE UNCHANGED cvars

\* the click handler of resetBtn, with updateCredits(credits, true)
ResetClickShown ==
  /\ ResetClick
  /\ display' = credits'
  /\ UNCHANGED anims

NextCredits ==
  \/ SpinClickShown
  \/ KeySpaceShown
  \/ \E s \in Slots : TimerFlicker(s) /\ UNCHANGED cvars
  \/ \E s \in Slots : TimerCompleteShown(s)
  \/ ResetClickShown
  \/ \E i \in 1 .. MaxAnims : CreditTick(i)

SpecCredits == Init /\ [][NextCredits]_allvars

\* C17: whenever no credit-animation timer is pending, the number in the
\* credits display equals the credits counter.
C17_DisplayConverges ==
  (anims = << >>) => (display = credits)

====
